---- MODULE Spec2Model ----
(***************************************************************************)
(* FocusAI backend (src/main.py, src/schemas.py): the relevance            *)
(* classifier, the session accrual handlers and the summary aggregator,    *)
(* over a document store with the collections "session" and                *)
(* "activityevent".                                                        *)
(*                                                                         *)
(* A Python str is the sequence of its characters, so that lower(),        *)
(* split() and the substring test are computed and not assumed.  A         *)
(* printable ASCII character other than the grave accent, and each of     *)
(* \t \n \f \r, is written as itself; every other code point is written   *)
(* by its name, "U+" and at least four upper-case hexadecimal digits       *)
(* ("U+000B", "U+0060", "U+212A").  None is the value None below, which    *)
(* is no str.                                                              *)
(***************************************************************************)
EXTENDS Integers, Sequences, FiniteSets, TLC

None == <<"<None>">>

\* ------------------------------------------------------------------ strings
\* the lower-case letter of each ASCII upper-case letter
LowerOf ==
  [A |-> "a", B |-> "b", C |-> "c", D |-> "d", E |-> "e", F |-> "f", G |-> "g",
   H |-> "h", I |-> "i", J |-> "j", K |-> "k", L |-> "l", M |-> "m", N |-> "n",
   O |-> "o", P |-> "p", Q |-> "q", R |-> "r", S |-> "s", T |-> "t", U |-> "u",
   V |-> "v", W |-> "w", X |-> "x", Y |-> "y", Z |-> "z"]

\* the code points U+0020 .. U+007E, in order
Printable ==
  << " ", "!", "\"", "#", "$", "%", "&", "'", "(", ")", "*", "+", ",", "-", ".", "/",
     "0", "1", "2", "3", "4", "5", "6", "7", "8", "9", ":", ";", "<", "=", ">", "?",
     "@", "A", "B", "C", "D", "E", "F", "G", "H", "I", "J", "K", "L", "M", "N", "O",
     "P", "Q", "R", "S", "T", "U", "V", "W", "X", "Y", "Z", "[", "\\", "]", "^", "_",
     "U+0060", "a", "b", "c", "d", "e", "f", "g", "h", "i", "j", "k", "l", "m", "n", "o",
     "p", "q", "r", "s", "t", "u", "v", "w", "x", "y", "z", "{", "|", "}", "~" >>

HexUpper == <<"0","1","2","3","4","5","6","7","8","9","A","B","C","D","E","F">>

\* the number written by the hexadecimal digits of the name c, from digit i
RECURSIVE HexNumber(_, _, _)
HexNumber(c, i, acc) ==
  IF i > Len(c) THEN acc
  ELSE HexNumber(c, i + 1,
         16 * acc + ((CHOOSE k \in 1..16 : HexUpper[k] = SubSeq(c, i, i)) - 1))

\* the hexadecimal digits of n, most significant first
RECURSIVE HexName(_)
HexName(n) == IF n < 16 THEN HexUpper[n + 1] ELSE HexName(n \div 16) \o HexUpper[(n % 16) + 1]

\* ord(c): the code point of a character
CodePoint(c) ==
  IF Len(c) > 1 THEN HexNumber(c, 3, 0)
  ELSE IF c = "\t" THEN 9
  ELSE IF c = "\n" THEN 10
  ELSE IF c = "\f" THEN 12
  ELSE IF c = "\r" THEN 13
  ELSE 31 + (CHOOSE k \in 1..Len(Printable) : Printable[k] = c)

\* chr(n): the character of a code point
Char(n) ==
  IF n >= 32 /\ n <= 126 THEN Printable[n - 31]
  ELSE IF n = 9 THEN "\t"
  ELSE IF n = 10 THEN "\n"
  ELSE IF n = 12 THEN "\f"
  ELSE IF n = 13 THEN "\r"
  ELSE "U+" \o (IF n < 16 THEN "000" ELSE IF n < 256 THEN "00" ELSE IF n < 4096 THEN "0" ELSE "")
            \o HexName(n)

\* str.isspace() on one character, the separators of str.split(): the
\* characters of bidirectional type WS, B or S and of category Zs
Whitespace ==
  { "\t", "\n", "U+000B", "\f", "\r", "U+001C", "U+001D", "U+001E", "U+001F", " ",
    "U+0085", "U+00A0", "U+1680", "U+2000", "U+2001", "U+2002", "U+2003", "U+2004",
    "U+2005", "U+2006", "U+2007", "U+2008", "U+2009", "U+200A", "U+2028", "U+2029",
    "U+202F", "U+205F", "U+3000" }

\* the simple lower-case mappings of the Unicode character database (14.0),
\* as runs <<first, last, step, delta>>: each code point first, first + step,
\* ... up to last maps to itself plus delta
LowerRuns ==
  << <<65,90,1,32>>, <<192,214,1,32>>, <<216,222,1,32>>, <<256,302,2,1>>,
     <<306,310,2,1>>, <<313,327,2,1>>, <<330,374,2,1>>, <<376,376,1,-121>>,
     <<377,381,2,1>>, <<385,385,1,210>>, <<386,388,2,1>>, <<390,390,1,206>>,
     <<391,391,1,1>>, <<393,394,1,205>>, <<395,395,1,1>>, <<398,398,1,79>>,
     <<399,399,1,202>>, <<400,400,1,203>>, <<401,401,1,1>>, <<403,403,1,205>>,
     <<404,404,1,207>>, <<406,406,1,211>>, <<407,407,1,209>>, <<408,408,1,1>>,
     <<412,412,1,211>>, <<413,413,1,213>>, <<415,415,1,214>>, <<416,420,2,1>>,
     <<422,422,1,218>>, <<423,423,1,1>>, <<425,425,1,218>>, <<428,428,1,1>>,
     <<430,430,1,218>>, <<431,431,1,1>>, <<433,434,1,217>>, <<435,437,2,1>>,
     <<439,439,1,219>>, <<440,440,1,1>>, <<444,444,1,1>>, <<452,452,1,2>>,
     <<453,453,1,1>>, <<455,455,1,2>>, <<456,456,1,1>>, <<458,458,1,2>>,
     <<459,475,2,1>>, <<478,494,2,1>>, <<497,497,1,2>>, <<498,500,2,1>>,
     <<502,502,1,-97>>, <<503,503,1,-56>>, <<504,542,2,1>>, <<544,544,1,-130>>,
     <<546,562,2,1>>, <<570,570,1,10795>>, <<571,571,1,1>>, <<573,573,1,-163>>,
     <<574,574,1,10792>>, <<577,577,1,1>>, <<579,579,1,-195>>, <<580,580,1,69>>,
     <<581,581,1,71>>, <<582,590,2,1>>, <<880,882,2,1>>, <<886,886,1,1>>,
     <<895,895,1,116>>, <<902,902,1,38>>, <<904,906,1,37>>, <<908,908,1,64>>,
     <<910,911,1,63>>, <<913,929,1,32>>, <<931,939,1,32>>, <<975,975,1,8>>,
     <<984,1006,2,1>>, <<1012,1012,1,-60>>, <<1015,1015,1,1>>, <<1017,1017,1,-7>>,
     <<1018,1018,1,1>>, <<1021,1023,1,-130>>, <<1024,1039,1,80>>, <<1040,1071,1,32>>,
     <<1120,1152,2,1>>, <<1162,1214,2,1>>, <<1216,1216,1,15>>, <<1217,1229,2,1>>,
     <<1232,1326,2,1>>, <<1329,1366,1,48>>, <<4256,4293,1,7264>>, <<4295,4295,1,7264>>,
     <<4301,4301,1,7264>>, <<5024,5103,1,38864>>, <<5104,5109,1,8>>, <<7312,7354,1,-3008>>,
     <<7357,7359,1,-3008>>, <<7680,7828,2,1>>, <<7838,7838,1,-7615>>, <<7840,7934,2,1>>,
     <<7944,7951,1,-8>>, <<7960,7965,1,-8>>, <<7976,7983,1,-8>>, <<7992,7999,1,-8>>,
     <<8008,8013,1,-8>>, <<8025,8031,2,-8>>, <<8040,8047,1,-8>>, <<8072,8079,1,-8>>,
     <<8088,8095,1,-8>>, <<8104,8111,1,-8>>, <<8120,8121,1,-8>>, <<8122,8123,1,-74>>,
     <<8124,8124,1,-9>>, <<8136,8139,1,-86>>, <<8140,8140,1,-9>>, <<8152,8153,1,-8>>,
     <<8154,8155,1,-100>>, <<8168,8169,1,-8>>, <<8170,8171,1,-112>>, <<8172,8172,1,-7>>,
     <<8184,8185,1,-128>>, <<8186,8187,1,-126>>, <<8188,8188,1,-9>>, <<8486,8486,1,-7517>>,
     <<8490,8490,1,-8383>>, <<8491,8491,1,-8262>>, <<8498,8498,1,28>>, <<8544,8559,1,16>>,
     <<8579,8579,1,1>>, <<9398,9423,1,26>>, <<11264,11311,1,48>>, <<11360,11360,1,1>>,
     <<11362,11362,1,-10743>>, <<11363,11363,1,-3814>>, <<11364,11364,1,-10727>>, <<11367,11371,2,1>>,
     <<11373,11373,1,-10780>>, <<11374,11374,1,-10749>>, <<11375,11375,1,-10783>>, <<11376,11376,1,-10782>>,
     <<11378,11378,1,1>>, <<11381,11381,1,1>>, <<11390,11391,1,-10815>>, <<11392,11490,2,1>>,
     <<11499,11501,2,1>>, <<11506,11506,1,1>>, <<42560,42604,2,1>>, <<42624,42650,2,1>>,
     <<42786,42798,2,1>>, <<42802,42862,2,1>>, <<42873,42875,2,1>>, <<42877,42877,1,-35332>>,
     <<42878,42886,2,1>>, <<42891,42891,1,1>>, <<42893,42893,1,-42280>>, <<42896,42898,2,1>>,
     <<42902,42920,2,1>>, <<42922,42922,1,-42308>>, <<42923,42923,1,-42319>>, <<42924,42924,1,-42315>>,
     <<42925,42925,1,-42305>>, <<42926,42926,1,-42308>>, <<42928,42928,1,-42258>>, <<42929,42929,1,-42282>>,
     <<42930,42930,1,-42261>>, <<42931,42931,1,928>>, <<42932,42946,2,1>>, <<42948,42948,1,-48>>,
     <<42949,42949,1,-42307>>, <<42950,42950,1,-35384>>, <<42951,42953,2,1>>, <<42960,42960,1,1>>,
     <<42966,42968,2,1>>, <<42997,42997,1,1>>, <<65313,65338,1,32>>, <<66560,66599,1,40>>,
     <<66736,66771,1,40>>, <<66928,66938,1,39>>, <<66940,66954,1,39>>, <<66956,66962,1,39>>,
     <<66964,66965,1,39>>, <<68736,68786,1,64>>, <<71840,71871,1,32>>, <<93760,93791,1,32>>,
     <<125184,125217,1,34>> >>

\* the cased code points that are not case-ignorable, as ranges <<first, last>>
CasedRanges ==
  << <<65,90>>, <<97,122>>, <<170,170>>, <<181,181>>, <<186,186>>, <<192,214>>,
     <<216,246>>, <<248,442>>, <<444,447>>, <<452,659>>, <<661,687>>, <<880,883>>,
     <<886,887>>, <<891,893>>, <<895,895>>, <<902,902>>, <<904,906>>, <<908,908>>,
     <<910,929>>, <<931,1013>>, <<1015,1153>>, <<1162,1327>>, <<1329,1366>>, <<1376,1416>>,
     <<4256,4293>>, <<4295,4295>>, <<4301,4301>>, <<4304,4346>>, <<4349,4351>>, <<5024,5109>>,
     <<5112,5117>>, <<7296,7304>>, <<7312,7354>>, <<7357,7359>>, <<7424,7467>>, <<7531,7543>>,
     <<7545,7578>>, <<7680,7957>>, <<7960,7965>>, <<7968,8005>>, <<8008,8013>>, <<8016,8023>>,
     <<8025,8025>>, <<8027,8027>>, <<8029,8029>>, <<8031,8061>>, <<8064,8116>>, <<8118,8124>>,
     <<8126,8126>>, <<8130,8132>>, <<8134,8140>>, <<8144,8147>>, <<8150,8155>>, <<8160,8172>>,
     <<8178,8180>>, <<8182,8188>>, <<8450,8450>>, <<8455,8455>>, <<8458,8467>>, <<8469,8469>>,
     <<8473,8477>>, <<8484,8484>>, <<8486,8486>>, <<8488,8488>>, <<8490,8493>>, <<8495,8500>>,
     <<8505,8505>>, <<8508,8511>>, <<8517,8521>>, <<8526,8526>>, <<8544,8575>>, <<8579,8580>>,
     <<9398,9449>>, <<11264,11387>>, <<11390,11492>>, <<11499,11502>>, <<11506,11507>>, <<11520,11557>>,
     <<11559,11559>>, <<11565,11565>>, <<42560,42605>>, <<42624,42651>>, <<42786,42863>>, <<42865,42887>>,
     <<42891,42894>>, <<42896,42954>>, <<42960,42961>>, <<42963,42963>>, <<42965,42969>>, <<42997,42998>>,
     <<43002,43002>>, <<43824,43866>>, <<43872,43880>>, <<43888,43967>>, <<64256,64262>>, <<64275,64279>>,
     <<65313,65338>>, <<65345,65370>>, <<66560,66639>>, <<66736,66771>>, <<66776,66811>>, <<66928,66938>>,
     <<66940,66954>>, <<66956,66962>>, <<66964,66965>>, <<66967,66977>>, <<66979,66993>>, <<66995,67001>>,
     <<67003,67004>>, <<68736,68786>>, <<68800,68850>>, <<71840,71903>>, <<93760,93823>>, <<119808,119892>>,
     <<119894,119964>>, <<119966,119967>>, <<119970,119970>>, <<119973,119974>>, <<119977,119980>>, <<119982,119993>>,
     <<119995,119995>>, <<119997,120003>>, <<120005,120069>>, <<120071,120074>>, <<120077,120084>>, <<120086,120092>>,
     <<120094,120121>>, <<120123,120126>>, <<120128,120132>>, <<120134,120134>>, <<120138,120144>>, <<120146,120485>>,
     <<120488,120512>>, <<120514,120538>>, <<120540,120570>>, <<120572,120596>>, <<120598,120628>>, <<120630,120654>>,
     <<120656,120686>>, <<120688,120712>>, <<120714,120744>>, <<120746,120770>>, <<120772,120779>>, <<122624,122633>>,
     <<122635,122654>>, <<125184,125251>>, <<127280,127305>>, <<127312,127337>>, <<127344,127369>> >>

\* the case-ignorable code points, as ranges <<first, last>>
CaseIgnorableRanges ==
  << <<39,39>>, <<46,46>>, <<58,58>>, <<94,94>>, <<96,96>>, <<168,168>>,
     <<173,173>>, <<175,175>>, <<180,180>>, <<183,184>>, <<688,879>>, <<884,885>>,
     <<890,890>>, <<900,901>>, <<903,903>>, <<1155,1161>>, <<1369,1369>>, <<1375,1375>>,
     <<1425,1469>>, <<1471,1471>>, <<1473,1474>>, <<1476,1477>>, <<1479,1479>>, <<1524,1524>>,
     <<1536,1541>>, <<1552,1562>>, <<1564,1564>>, <<1600,1600>>, <<1611,1631>>, <<1648,1648>>,
     <<1750,1757>>, <<1759,1768>>, <<1770,1773>>, <<1807,1807>>, <<1809,1809>>, <<1840,1866>>,
     <<1958,1968>>, <<2027,2037>>, <<2042,2042>>, <<2045,2045>>, <<2070,2093>>, <<2137,2139>>,
     <<2184,2184>>, <<2192,2193>>, <<2200,2207>>, <<2249,2306>>, <<2362,2362>>, <<2364,2364>>,
     <<2369,2376>>, <<2381,2381>>, <<2385,2391>>, <<2402,2403>>, <<2417,2417>>, <<2433,2433>>,
     <<2492,2492>>, <<2497,2500>>, <<2509,2509>>, <<2530,2531>>, <<2558,2558>>, <<2561,2562>>,
     <<2620,2620>>, <<2625,2626>>, <<2631,2632>>, <<2635,2637>>, <<2641,2641>>, <<2672,2673>>,
     <<2677,2677>>, <<2689,2690>>, <<2748,2748>>, <<2753,2757>>, <<2759,2760>>, <<2765,2765>>,
     <<2786,2787>>, <<2810,2815>>, <<2817,2817>>, <<2876,2876>>, <<2879,2879>>, <<2881,2884>>,
     <<2893,2893>>, <<2901,2902>>, <<2914,2915>>, <<2946,2946>>, <<3008,3008>>, <<3021,3021>>,
     <<3072,3072>>, <<3076,3076>>, <<3132,3132>>, <<3134,3136>>, <<3142,3144>>, <<3146,3149>>,
     <<3157,3158>>, <<3170,3171>>, <<3201,3201>>, <<3260,3260>>, <<3263,3263>>, <<3270,3270>>,
     <<3276,3277>>, <<3298,3299>>, <<3328,3329>>, <<3387,3388>>, <<3393,3396>>, <<3405,3405>>,
     <<3426,3427>>, <<3457,3457>>, <<3530,3530>>, <<3538,3540>>, <<3542,3542>>, <<3633,3633>>,
     <<3636,3642>>, <<3654,3662>>, <<3761,3761>>, <<3764,3772>>, <<3782,3782>>, <<3784,3789>>,
     <<3864,3865>>, <<3893,3893>>, <<3895,3895>>, <<3897,3897>>, <<3953,3966>>, <<3968,3972>>,
     <<3974,3975>>, <<3981,3991>>, <<3993,4028>>, <<4038,4038>>, <<4141,4144>>, <<4146,4151>>,
     <<4153,4154>>, <<4157,4158>>, <<4184,4185>>, <<4190,4192>>, <<4209,4212>>, <<4226,4226>>,
     <<4229,4230>>, <<4237,4237>>, <<4253,4253>>, <<4348,4348>>, <<4957,4959>>, <<5906,5908>>,
     <<5938,5939>>, <<5970,5971>>, <<6002,6003>>, <<6068,6069>>, <<6071,6077>>, <<6086,6086>>,
     <<6089,6099>>, <<6103,6103>>, <<6109,6109>>, <<6155,6159>>, <<6211,6211>>, <<6277,6278>>,
     <<6313,6313>>, <<6432,6434>>, <<6439,6440>>, <<6450,6450>>, <<6457,6459>>, <<6679,6680>>,
     <<6683,6683>>, <<6742,6742>>, <<6744,6750>>, <<6752,6752>>, <<6754,6754>>, <<6757,6764>>,
     <<6771,6780>>, <<6783,6783>>, <<6823,6823>>, <<6832,6862>>, <<6912,6915>>, <<6964,6964>>,
     <<6966,6970>>, <<6972,6972>>, <<6978,6978>>, <<7019,7027>>, <<7040,7041>>, <<7074,7077>>,
     <<7080,7081>>, <<7083,7085>>, <<7142,7142>>, <<7144,7145>>, <<7149,7149>>, <<7151,7153>>,
     <<7212,7219>>, <<7222,7223>>, <<7288,7293>>, <<7376,7378>>, <<7380,7392>>, <<7394,7400>>,
     <<7405,7405>>, <<7412,7412>>, <<7416,7417>>, <<7468,7530>>, <<7544,7544>>, <<7579,7679>>,
     <<8125,8125>>, <<8127,8129>>, <<8141,8143>>, <<8157,8159>>, <<8173,8175>>, <<8189,8190>>,
     <<8203,8207>>, <<8216,8217>>, <<8228,8228>>, <<8231,8231>>, <<8234,8238>>, <<8288,8292>>,
     <<8294,8303>>, <<8305,8305>>, <<8319,8319>>, <<8336,8348>>, <<8400,8432>>, <<11388,11389>>,
     <<11503,11505>>, <<11631,11631>>, <<11647,11647>>, <<11744,11775>>, <<11823,11823>>, <<12293,12293>>,
     <<12330,12333>>, <<12337,12341>>, <<12347,12347>>, <<12441,12446>>, <<12540,12542>>, <<40981,40981>>,
     <<42232,42237>>, <<42508,42508>>, <<42607,42610>>, <<42612,42621>>, <<42623,42623>>, <<42652,42655>>,
     <<42736,42737>>, <<42752,42785>>, <<42864,42864>>, <<42888,42890>>, <<42994,42996>>, <<43000,43001>>,
     <<43010,43010>>, <<43014,43014>>, <<43019,43019>>, <<43045,43046>>, <<43052,43052>>, <<43204,43205>>,
     <<43232,43249>>, <<43263,43263>>, <<43302,43309>>, <<43335,43345>>, <<43392,43394>>, <<43443,43443>>,
     <<43446,43449>>, <<43452,43453>>, <<43471,43471>>, <<43493,43494>>, <<43561,43566>>, <<43569,43570>>,
     <<43573,43574>>, <<43587,43587>>, <<43596,43596>>, <<43632,43632>>, <<43644,43644>>, <<43696,43696>>,
     <<43698,43700>>, <<43703,43704>>, <<43710,43711>>, <<43713,43713>>, <<43741,43741>>, <<43756,43757>>,
     <<43763,43764>>, <<43766,43766>>, <<43867,43871>>, <<43881,43883>>, <<44005,44005>>, <<44008,44008>>,
     <<44013,44013>>, <<64286,64286>>, <<64434,64450>>, <<65024,65039>>, <<65043,65043>>, <<65056,65071>>,
     <<65106,65106>>, <<65109,65109>>, <<65279,65279>>, <<65287,65287>>, <<65294,65294>>, <<65306,65306>>,
     <<65342,65342>>, <<65344,65344>>, <<65392,65392>>, <<65438,65439>>, <<65507,65507>>, <<65529,65531>>,
     <<66045,66045>>, <<66272,66272>>, <<66422,66426>>, <<67456,67461>>, <<67463,67504>>, <<67506,67514>>,
     <<68097,68099>>, <<68101,68102>>, <<68108,68111>>, <<68152,68154>>, <<68159,68159>>, <<68325,68326>>,
     <<68900,68903>>, <<69291,69292>>, <<69446,69456>>, <<69506,69509>>, <<69633,69633>>, <<69688,69702>>,
     <<69744,69744>>, <<69747,69748>>, <<69759,69761>>, <<69811,69814>>, <<69817,69818>>, <<69821,69821>>,
     <<69826,69826>>, <<69837,69837>>, <<69888,69890>>, <<69927,69931>>, <<69933,69940>>, <<70003,70003>>,
     <<70016,70017>>, <<70070,70078>>, <<70089,70092>>, <<70095,70095>>, <<70191,70193>>, <<70196,70196>>,
     <<70198,70199>>, <<70206,70206>>, <<70367,70367>>, <<70371,70378>>, <<70400,70401>>, <<70459,70460>>,
     <<70464,70464>>, <<70502,70508>>, <<70512,70516>>, <<70712,70719>>, <<70722,70724>>, <<70726,70726>>,
     <<70750,70750>>, <<70835,70840>>, <<70842,70842>>, <<70847,70848>>, <<70850,70851>>, <<71090,71093>>,
     <<71100,71101>>, <<71103,71104>>, <<71132,71133>>, <<71219,71226>>, <<71229,71229>>, <<71231,71232>>,
     <<71339,71339>>, <<71341,71341>>, <<71344,71349>>, <<71351,71351>>, <<71453,71455>>, <<71458,71461>>,
     <<71463,71467>>, <<71727,71735>>, <<71737,71738>>, <<71995,71996>>, <<71998,71998>>, <<72003,72003>>,
     <<72148,72151>>, <<72154,72155>>, <<72160,72160>>, <<72193,72202>>, <<72243,72248>>, <<72251,72254>>,
     <<72263,72263>>, <<72273,72278>>, <<72281,72283>>, <<72330,72342>>, <<72344,72345>>, <<72752,72758>>,
     <<72760,72765>>, <<72767,72767>>, <<72850,72871>>, <<72874,72880>>, <<72882,72883>>, <<72885,72886>>,
     <<73009,73014>>, <<73018,73018>>, <<73020,73021>>, <<73023,73029>>, <<73031,73031>>, <<73104,73105>>,
     <<73109,73109>>, <<73111,73111>>, <<73459,73460>>, <<78896,78904>>, <<92912,92916>>, <<92976,92982>>,
     <<92992,92995>>, <<94031,94031>>, <<94095,94111>>, <<94176,94177>>, <<94179,94180>>, <<110576,110579>>,
     <<110581,110587>>, <<110589,110590>>, <<113821,113822>>, <<113824,113827>>, <<118528,118573>>, <<118576,118598>>,
     <<119143,119145>>, <<119155,119170>>, <<119173,119179>>, <<119210,119213>>, <<119362,119364>>, <<121344,121398>>,
     <<121403,121452>>, <<121461,121461>>, <<121476,121476>>, <<121499,121503>>, <<121505,121519>>, <<122880,122886>>,
     <<122888,122904>>, <<122907,122913>>, <<122915,122916>>, <<122918,122922>>, <<123184,123197>>, <<123566,123566>>,
     <<123628,123631>>, <<125136,125142>>, <<125252,125259>>, <<127995,127999>>, <<917505,917505>>, <<917536,917631>>,
     <<917760,917999>> >>

InRanges(n, ranges) == \E r \in 1..Len(ranges) : ranges[r][1] <= n /\ n <= ranges[r][2]

IsCaseIgnorable(c) == InRanges(CodePoint(c), CaseIgnorableRanges)

\* on a character that is not case-ignorable
IsCased(c) == InRanges(CodePoint(c), CasedRanges)

\* the simple lower-case mapping of a code point
ToLower(n) ==
  IF \E r \in 1..Len(LowerRuns) :
       /\ LowerRuns[r][1] <= n /\ n <= LowerRuns[r][2]
       /\ (n - LowerRuns[r][1]) % LowerRuns[r][3] = 0
    THEN LET r == CHOOSE q \in 1..Len(LowerRuns) :
                    /\ LowerRuns[q][1] <= n /\ n <= LowerRuns[q][2]
                    /\ (n - LowerRuns[q][1]) % LowerRuns[q][3] = 0
         IN  n + LowerRuns[r][4]
    ELSE n

Sigma == "U+03A3"
DottedI == "U+0130"

\* str.lower() on the capital sigma s[i]: the final form when a cased
\* character comes before it and none comes after it, case-ignorable
\* characters skipped on both sides
handle_capital_sigma(s, i) ==
  LET before == {j \in 1..(i - 1) : ~IsCaseIgnorable(s[j])}
      after  == {j \in (i + 1)..Len(s) : ~IsCaseIgnorable(s[j])}
      prev   == CHOOSE j \in before : \A k \in before : k <= j
      next   == CHOOSE j \in after : \A k \in after : j <= k
  IN  IF /\ before # {}
         /\ IsCased(s[prev])
         /\ (after = {} \/ ~IsCased(s[next]))
        THEN "U+03C2"
        ELSE "U+03C3"

\* str.lower() on the character s[i]: one character, or two for U+0130
LowerAt(s, i) ==
  IF s[i] = Sigma THEN <<handle_capital_sigma(s, i)>>
  ELSE IF s[i] = DottedI THEN <<"i", "U+0307">>
  ELSE <<Char(ToLower(CodePoint(s[i])))>>

RECURSIVE LowerFrom(_, _)
LowerFrom(s, i) == IF i > Len(s) THEN <<>> ELSE LowerAt(s, i) \o LowerFrom(s, i + 1)

\* every character of s is written as itself
IsAscii(s) == \A i \in 1..Len(s) : Len(s[i]) = 1

\* str.lower()
lower(s) ==
  IF IsAscii(s)
    THEN [i \in 1..Len(s) |-> IF s[i] \in DOMAIN LowerOf THEN LowerOf[s[i]] ELSE s[i]]
    ELSE LowerFrom(s, 1)

\* title or "" : None and the empty str both give the empty str
OrEmpty(s) == IF s = None THEN <<>> ELSE s

\* kw in text : the substring test of Python's `in` on two str
Contains(kw, text) ==
  \E i \in 0..(Len(text) - Len(kw)) :
    \A j \in 1..Len(kw) : text[i + j] = kw[j]

\* " ".join([a, b, c])
JoinBlob(a, b, c) == a \o <<" ">> \o b \o <<" ">> \o c

\* str.split() with no argument: the maximal runs of non-whitespace, in order
RECURSIVE SplitFrom(_, _, _)
SplitFrom(s, i, cur) ==
  IF i > Len(s)
    THEN IF cur = <<>> THEN <<>> ELSE <<cur>>
    ELSE IF s[i] \in Whitespace
      THEN IF cur = <<>> THEN SplitFrom(s, i + 1, <<>>)
                         ELSE <<cur>> \o SplitFrom(s, i + 1, <<>>)
      ELSE SplitFrom(s, i + 1, Append(cur, s[i]))

split(s) == SplitFrom(s, 1, <<>>)

\* ------------------------------------------------------------- classifier
KwSocial == << <<"t","w","i","t","t","e","r">>,
               <<"x",".","c","o","m">>,
               <<"f","a","c","e","b","o","o","k">>,
               <<"i","n","s","t","a","g","r","a","m">>,
               <<"t","i","k","t","o","k">>,
               <<"r","e","d","d","i","t">> >>

KwNsfw == << <<"p","o","r","n">>, <<"n","s","f","w">>, <<"x","x","x">> >>

KwGames == << <<"s","t","e","a","m">>,
              <<"e","p","i","c","g","a","m","e","s">>,
              <<"r","o","b","l","o","x">>,
              <<"l","e","a","g","u","e"," ","o","f"," ","l","e","g","e","n","d","s">>,
              <<"v","a","l","o","r","a","n","t">> >>

\* BLOCKLIST_KEYWORDS.get(cat, [])
BLOCKLIST_KEYWORDS(cat) ==
  CASE cat = "social" -> KwSocial
    [] cat = "nsfw"   -> KwNsfw
    [] cat = "games"  -> KwGames
    [] OTHER          -> <<>>

MatchedReason(kw, cat) ==
  [text |-> "Matched blocked keyword '{kw}' in category '{cat}'", kw |-> kw, cat |-> cat]

GoalReason == [text |-> "Goal keywords found in current context", kw |-> <<>>, cat |-> ""]

DefaultReason == [text |-> "No blocklisted signals detected", kw |-> <<>>, cat |-> ""]

\* the nested for loops of classify_relevance: the first (cat, kw), in the
\* order of `categories` and then of the category's keyword list, with kw in
\* text; <<>> when the loops run to their end
RECURSIVE FirstBlocked(_, _, _, _)
FirstBlocked(text, categories, ci, ki) ==
  IF ci > Len(categories) THEN <<>>
  ELSE IF ki > Len(BLOCKLIST_KEYWORDS(categories[ci]))
    THEN FirstBlocked(text, categories, ci + 1, 1)
  ELSE IF Contains(BLOCKLIST_KEYWORDS(categories[ci])[ki], text)
    THEN <<BLOCKLIST_KEYWORDS(categories[ci])[ki], categories[ci]>>
  ELSE FirstBlocked(text, categories, ci, ki + 1)

\* goal_words = [w for w in goal.lower().split() if len(w) > 3]
goal_words(goal) == SelectSeq(split(lower(goal)), LAMBDA w : Len(w) > 3)

\* a classifier that tests the goal words before the blocklist
classify_relevance_goal_first(goal, title, url, categories) ==
  LET text  == JoinBlob(lower(goal), lower(OrEmpty(title)), lower(OrEmpty(url)))
      gw    == goal_words(goal)
      hit   == FirstBlocked(text, categories, 1, 1)
  IN  IF \E k \in 1..Len(gw) : Contains(gw[k], text)
        THEN <<"relevant", GoalReason>>
      ELSE IF hit # <<>>
        THEN <<"irrelevant", MatchedReason(hit[1], hit[2])>>
      ELSE <<"relevant", DefaultReason>>

classify_relevance(goal, title, url, categories) ==
  LET text  == JoinBlob(lower(goal), lower(OrEmpty(title)), lower(OrEmpty(url)))
      gw    == goal_words(goal)
      hit   == FirstBlocked(text, categories, 1, 1)
  IN  IF hit # <<>>
        THEN <<"irrelevant", MatchedReason(hit[1], hit[2])>>
      ELSE IF \E k \in 1..Len(gw) : Contains(gw[k], text)
        THEN <<"relevant", GoalReason>>
      ELSE <<"relevant", DefaultReason>>

\* ------------------------------------------------------------ identifiers
HexChars == {"0","1","2","3","4","5","6","7","8","9",
             "a","b","c","d","e","f","A","B","C","D","E","F"}

HexDigits == <<"0","1","2","3","4","5","6","7","8","9","a","b","c","d","e","f">>

\* the characters bytes.fromhex skips: ASCII whitespace
AsciiSpace == {" ", "\t", "\n", "U+000B", "\f", "\r"}

ValueError == <<"ValueError">>

\* bytes.fromhex(s) from position i on: whitespace is skipped before each
\* byte, a byte is two adjacent hexadecimal digits, anything else is a
\* ValueError.  The bytes are written as lower-case hexadecimal digits.
\* a hexadecimal digit as bytes.hex() writes it
HexLower(c) == IF c \in DOMAIN LowerOf THEN LowerOf[c] ELSE c

RECURSIVE fromhex(_, _, _)
fromhex(s, i, acc) ==
  IF i > Len(s) THEN acc
  ELSE IF s[i] \in AsciiSpace THEN fromhex(s, i + 1, acc)
  ELSE IF i < Len(s) /\ s[i] \in HexChars /\ s[i + 1] \in HexChars
    THEN fromhex(s, i + 2, acc \o <<HexLower(s[i]), HexLower(s[i + 1])>>)
  ELSE ValueError

RaisesInvalidId == <<"InvalidId">>

\* bson.ObjectId(s): InvalidId unless s is a str of 24 characters that
\* bytes.fromhex accepts, and then its bytes, written as str() writes them.
\* They are 12 bytes when s holds no whitespace and fewer when it does.
OrInvalidId(b) == IF b = ValueError THEN RaisesInvalidId ELSE b

ObjectId(s) == IF Len(s) # 24 THEN RaisesInvalidId ELSE OrInvalidId(fromhex(s, 1, <<>>))

ObjectIdValid(s) == ObjectId(s) # RaisesInvalidId

\* the k-th identifier the store generates for a collection
NewObjectId(k) ==
  [i \in 1..24 |-> IF i = 23 THEN HexDigits[((k \div 16) % 16) + 1]
                   ELSE IF i = 24 THEN HexDigits[(k % 16) + 1]
                   ELSE "0"]

\* ----------------------------------------------------------------- bounds
\* sessions stored, activity requests begun, concurrent workers
MaxSessions == 2
MaxEvents == 2
MaxProcs == 2

Procs == 1..MaxProcs
\* datetime.now(timezone.utc): an input of the handler that reads it.  No
\* handler compares two instants, so the instants are not told apart.
Times == {<<"utc">>}
Users == {"u1", "u2"}

\* ---------------------------------------------------------------- schemas
Cluely == <<"C","l","u","e","l","y">>

DurationMin == 1
DurationMax == 480

\* a range check with its lower end off by one
SessionValid_ge0(duration_minutes) ==
  duration_minutes >= 0 /\ duration_minutes <= DurationMax

\* Session.duration_minutes: Field(..., ge=1, le=480)
SessionValid(duration_minutes) ==
  duration_minutes >= DurationMin /\ duration_minutes <= DurationMax

\* a Session whose focus counter starts at the planned duration
Session_keep_counters(payload, now) ==
  [user_id |-> payload.user_id,
   goal |-> payload.goal,
   duration_minutes |-> payload.duration_minutes,
   categories |-> payload.categories,
   voice |-> IF payload.voice = None \/ payload.voice = <<>> THEN Cluely ELSE payload.voice,
   started_at |-> now,
   ended_at |-> None,
   total_focus_seconds |-> payload.duration_minutes,
   total_idle_seconds |-> 0,
   distractions_blocked |-> 0,
   status |-> "active"]

\* the Session(...) that start_session builds from its payload
Session(payload, now) ==
  [user_id |-> payload.user_id,
   goal |-> payload.goal,
   duration_minutes |-> payload.duration_minutes,
   categories |-> payload.categories,
   voice |-> IF payload.voice = None \/ payload.voice = <<>> THEN Cluely ELSE payload.voice,
   started_at |-> now,
   ended_at |-> None,
   total_focus_seconds |-> 0,
   total_idle_seconds |-> 0,
   distractions_blocked |-> 0,
   status |-> "active"]

\* an event that logs an idle report as a distraction
ActivityEvent_idle(payload, decision, reason, now) ==
  [session_id |-> payload.session_id,
   user_id |-> payload.user_id,
   timestamp |-> now,
   device |-> "web",
   app |-> payload.app,
   url |-> payload.url,
   title |-> payload.title,
   idle |-> payload.idle,
   decision |-> IF payload.idle THEN "irrelevant" ELSE decision,
   reason |-> reason]

\* the ActivityEvent(...) that update_activity builds
ActivityEvent(payload, decision, reason, now) ==
  [session_id |-> payload.session_id,
   user_id |-> payload.user_id,
   timestamp |-> now,
   device |-> "web",
   app |-> payload.app,
   url |-> payload.url,
   title |-> payload.title,
   idle |-> payload.idle,
   decision |-> decision,
   reason |-> reason]

\* ------------------------------------------------------------------ store
\* a document with field k set to v, added when absent ($set, insert's _id)
SetField(d, k, v) == [x \in DOMAIN d \cup {k} |-> IF x = k THEN v ELSE d[x]]

\* create_document(collection, data): insert with a store-generated _id
create_document(coll, data) == Append(coll, SetField(data, "_id", NewObjectId(Len(coll) + 1)))

\* the id string create_document returns for that insert
created_id(coll) == NewObjectId(Len(coll) + 1)

\* list(db[coll].find({"_id": oid}))
find_by_id(coll, oid) == SelectSeq(coll, LAMBDA d : d._id = oid)

RECURSIVE Take(_, _)
Take(s, n) == IF n <= 0 \/ s = <<>> THEN <<>> ELSE <<Head(s)>> \o Take(Tail(s), n - 1)

\* get_documents("session", {"user_id": user_id}, limit)
get_documents(coll, user_id, limit) ==
  Take(SelectSeq(coll, LAMBDA d : d.user_id = user_id), limit)

\* matched_count of update_one({"_id": oid}, ...)
matched_count(coll, oid) == IF \E i \in 1..Len(coll) : coll[i]._id = oid THEN 1 ELSE 0

\* {"$inc": inc, "$set": {"updated_at": now}} applied to one document
IncDoc(d, inc, now) ==
  SetField([d EXCEPT !.distractions_blocked = @ + inc.distractions_blocked,
                     !.total_focus_seconds = @ + inc.total_focus_seconds],
           "updated_at", now)

\* a read-modify-write from the caller's snapshot instead of $inc
update_one_inc_stale(coll, oid, sdoc, inc, now) ==
  [i \in 1..Len(coll) |->
     IF coll[i]._id = oid
       THEN SetField([coll[i] EXCEPT
               !.distractions_blocked = sdoc.distractions_blocked + inc.distractions_blocked,
               !.total_focus_seconds = sdoc.total_focus_seconds + inc.total_focus_seconds],
               "updated_at", now)
       ELSE coll[i]]

\* the caller's snapshot, incremented, written back whole
update_one_inc_replace(coll, oid, sdoc, inc, now) ==
  [i \in 1..Len(coll) |->
     IF coll[i]._id = oid THEN IncDoc(sdoc, inc, now) ELSE coll[i]]

\* an increment that also accrues idle time
update_one_inc_idle(coll, oid, sdoc, inc, now) ==
  [i \in 1..Len(coll) |->
     IF coll[i]._id = oid
       THEN [IncDoc(coll[i], inc, now) EXCEPT !.total_idle_seconds = @ + inc.total_focus_seconds]
       ELSE coll[i]]

\* db["session"].update_one({"_id": oid}, {"$inc": inc, "$set": {"updated_at": now}}):
\* one atomic store operation on the stored document; sdoc, the caller's
\* earlier read, is not used by it
update_one_inc(coll, oid, sdoc, inc, now) ==
  [i \in 1..Len(coll) |->
     IF coll[i]._id = oid THEN IncDoc(coll[i], inc, now) ELSE coll[i]]

\* db["session"].update_one({"_id": oid}, {"$set": {"status": "ended", "ended_at": now}})
update_one_end(coll, oid, now) ==
  [i \in 1..Len(coll) |->
     IF coll[i]._id = oid
       THEN [coll[i] EXCEPT !.status = "ended", !.ended_at = now]
       ELSE coll[i]]

FocusIncrement == 30

\* inc = {"distractions_blocked": 1} if decision == "irrelevant" else {"total_focus_seconds": 30}
IncFor(decision) ==
  IF decision = "irrelevant"
    THEN [distractions_blocked |-> 1, total_focus_seconds |-> 0]
    ELSE [distractions_blocked |-> 0, total_focus_seconds |-> FocusIncrement]

\* ----------------------------------------------------------------- inputs
FinishReport == <<"F","i","n","i","s","h"," ","R","e","p","o","r","t">>
GoalAbc == <<"a","b","c">>
TwitterFeed == <<"T","w","i","t","t","e","r"," ","f","e","e","d">>
DocsUrl == <<"d","o","c","s",".","n","e","w","/","r","e","p","o","r","t">>
Chrome == <<"C","h","r","o","m","e">>
Nova == <<"N","o","v","a">>

\* StartSessionRequest bodies: two users' requests, with durations on and
\* around both ends of the accepted range
StartInputs ==
  { [user_id |-> "u1", goal |-> FinishReport, duration_minutes |-> d,
     categories |-> <<"social">>, voice |-> None] :
       d \in {0, DurationMin, DurationMax + 1} }
  \cup
  { [user_id |-> "u2", goal |-> GoalAbc, duration_minutes |-> d,
     categories |-> <<"games", "social">>, voice |-> Nova] :
       d \in {-1, DurationMax} }

\* session_id strings of requests: generated ids (the last one never stored
\* within MaxSessions), an upper-case spelling of a generated id, two
\* strings that are no ObjectId, and 24 characters with whitespace between
\* the bytes, which are an ObjectId of 8 bytes
MalformedShort == <<"a","b","c">>
MalformedNonHex == [i \in 1..24 |-> IF i = 24 THEN "z" ELSE "0"]
UpperId == [i \in 1..24 |-> IF i = 24 THEN "A" ELSE "0"]
SpacedId == [i \in 1..24 |-> IF i % 3 = 0 THEN " " ELSE "0"]

RequestIds ==
  {NewObjectId(k) : k \in 1..(MaxSessions + 1)}
    \cup {UpperId, MalformedShort, MalformedNonHex, SpacedId}

\* UpdateActivityRequest bodies
ActivityInputs ==
  { [session_id |-> sid, user_id |-> b.user_id, app |-> b.app, url |-> b.url,
     title |-> b.title, idle |-> b.idle] :
      sid \in RequestIds,
      b \in { [user_id |-> "u1", app |-> None, url |-> None, title |-> TwitterFeed, idle |-> FALSE],
              [user_id |-> "u2", app |-> Chrome, url |-> DocsUrl, title |-> None, idle |-> TRUE] } }

\* ------------------------------------------------------------------ state
VARIABLES
  session,        \* the "session" collection, in insertion order
  activityevent,  \* the "activityevent" collection, in insertion order
  pc,             \* per worker: "idle", or the next store operation of update_activity
  local,          \* per worker: the locals of its update_activity call
  resp,           \* the last response sent, with the request it answers
  replies,        \* per session id: the activity responses sent, by decision
  call            \* a classify_relevance call: its arguments and its result

vars == <<session, activityevent, pc, local, resp, replies, call>>

store == <<session, activityevent>>

NoLocal == [payload |-> [session_id |-> <<>>], sdoc |-> [_id |-> <<>>],
            decision |-> "", reason |-> DefaultReason]

NoResp == [op |-> "none", request |-> [none |-> TRUE], status |-> 0, body |-> [detail |-> ""]]

NoCall == [goal |-> <<>>, title |-> None, url |-> None, categories |-> <<>>,
           done |-> FALSE, decision |-> "", reason |-> DefaultReason]

NotFound == [detail |-> "Session not found"]
InvalidId == [exception |-> "bson.errors.InvalidId"]
ValidationError == [exception |-> "pydantic.ValidationError"]

Init ==
  /\ session = <<>>
  /\ activityevent = <<>>
  /\ pc = [p \in Procs |-> "idle"]
  /\ local = [p \in Procs |-> NoLocal]
  /\ resp = NoResp
  /\ replies = [o \in {ObjectId(r) : r \in {x \in RequestIds : ObjectIdValid(x)}} |->
                  [relevant |-> 0, irrelevant |-> 0]]
  /\ call = NoCall

\* activity requests started and not refused: events inserted or about to be
Started == Len(activityevent) + Cardinality({p \in Procs : pc[p] = "insert"})

\* ------------------------------------------------------------- operations
\* start_session: builds and validates the Session, inserts it
start_session(p, payload, now) ==
  /\ pc[p] = "idle"
  /\ SessionValid(payload.duration_minutes) => Len(session) < MaxSessions
  /\ IF SessionValid(payload.duration_minutes)
       THEN /\ session' = create_document(session, Session(payload, now))
            /\ resp' =
                 [op |-> "start", request |-> payload, status |-> 200,
                  body |-> [session_id |-> created_id(session),
                            status |-> Session(payload, now).status]]
       ELSE /\ session' = session
            /\ resp' =
                 [op |-> "start", request |-> payload, status |-> 500, body |-> ValidationError]
  /\ UNCHANGED <<activityevent, pc, local, replies, call>>

\* update_activity up to its first store operation: the session lookup, then
\* the classification of the report against the document that was read.
\* oid is ObjectId(payload.session_id), computed once.
update_activity_find(p, payload) ==
  /\ pc[p] = "idle"
  /\ Started < MaxEvents
  /\ \E oid \in {ObjectId(payload.session_id)} :
         IF oid = RaisesInvalidId
           THEN /\ resp' =
                     [op |-> "activity", request |-> payload, status |-> 500, body |-> InvalidId]
                /\ UNCHANGED <<pc, local>>
         ELSE IF find_by_id(session, oid) = <<>>
           THEN /\ resp' =
                     [op |-> "activity", request |-> payload, status |-> 404, body |-> NotFound]
                /\ UNCHANGED <<pc, local>>
         ELSE LET sdoc == find_by_id(session, oid)[1]
                  r == classify_relevance(sdoc.goal, payload.title, payload.url, sdoc.categories)
              IN  /\ local' = [local EXCEPT ![p] =
                       [payload |-> payload, sdoc |-> sdoc, decision |-> r[1], reason |-> r[2]]]
                  /\ pc' = [pc EXCEPT ![p] = "insert"]
                  /\ UNCHANGED resp
  /\ UNCHANGED <<session, activityevent, replies, call>>

\* update_activity: create_document("activityevent", event)
update_activity_insert(p, now) ==
  /\ pc[p] = "insert"
  /\ activityevent' = create_document(activityevent,
       ActivityEvent(local[p].payload, local[p].decision, local[p].reason, now))
  /\ pc' = [pc EXCEPT ![p] = "update"]
  /\ UNCHANGED <<session, local, resp, replies, call>>

\* update_activity: the counter update, and the response
update_activity_update(p, now) ==
  /\ pc[p] = "update"
  /\ \E oid \in {ObjectId(local[p].payload.session_id)} :
         /\ session' = update_one_inc(session, oid, local[p].sdoc, IncFor(local[p].decision), now)
         /\ replies' = [replies EXCEPT ![oid][local[p].decision] = @ + 1]
  /\ resp' =
       [op |-> "activity", request |-> local[p].payload, status |-> 200,
        body |-> [decision |-> local[p].decision, reason |-> local[p].reason]]
  /\ pc' = [pc EXCEPT ![p] = "idle"]
  /\ local' = [local EXCEPT ![p] = NoLocal]
  /\ UNCHANGED <<activityevent, call>>

\* end_session: one update_one, 404 when it matched nothing
end_session(p, payload, now) ==
  /\ pc[p] = "idle"
  /\ \E oid \in {ObjectId(payload.session_id)} :
         IF oid = RaisesInvalidId
           THEN /\ session' = session
                /\ resp' =
                     [op |-> "end", request |-> payload, status |-> 500, body |-> InvalidId]
         ELSE IF matched_count(session, oid) = 0
           THEN /\ session' = session
                /\ resp' =
                     [op |-> "end", request |-> payload, status |-> 404, body |-> NotFound]
         ELSE /\ session' = update_one_end(session, oid, now)
              /\ resp' =
                   [op |-> "end", request |-> payload, status |-> 200,
                    body |-> [status |-> "ended"]]
  /\ UNCHANGED <<activityevent, pc, local, replies, call>>

\* ---------------------------------------------------------------- summary
SummaryLimit == 50
StreakCap == 7

\* sum(int(s.get(field, 0)) for s in sessions)
RECURSIVE SumField(_, _)
SumField(docs, field) ==
  IF docs = <<>> THEN 0
  ELSE (IF field \in DOMAIN Head(docs) THEN Head(docs)[field] ELSE 0) + SumField(Tail(docs), field)

Min(a, b) == IF a <= b THEN a ELSE b

\* a summary that reads the collection without the user_id filter
session_summary_all_users(coll, user_id) ==
  LET sessions == Take(coll, SummaryLimit)
  IN  [sessions |-> Len(sessions),
       total_focus_seconds |-> SumField(sessions, "total_focus_seconds"),
       total_idle_seconds |-> SumField(sessions, "total_idle_seconds"),
       distractions_blocked |-> SumField(sessions, "distractions_blocked"),
       streak_days |-> Min(Len(sessions), StreakCap)]

\* the body session_summary returns for user_id over the session collection
session_summary(coll, user_id) ==
  LET sessions == get_documents(coll, user_id, SummaryLimit)
  IN  [sessions |-> Len(sessions),
       total_focus_seconds |-> SumField(sessions, "total_focus_seconds"),
       total_idle_seconds |-> SumField(sessions, "total_idle_seconds"),
       distractions_blocked |-> SumField(sessions, "distractions_blocked"),
       streak_days |-> Min(Len(sessions), StreakCap)]

\* GET /api/session/{user_id}/summary: one read, no write
summary(p, user_id) ==
  /\ pc[p] = "idle"
  /\ resp' =
       [op |-> "summary", request |-> [user_id |-> user_id], status |-> 200,
        body |-> session_summary(session, user_id)]
  /\ UNCHANGED <<session, activityevent, pc, local, replies, call>>

Next ==
  \E p \in Procs :
    \/ \E payload \in StartInputs, now \in Times : start_session(p, payload, now)
    \/ \E payload \in ActivityInputs : update_activity_find(p, payload)
    \/ \E now \in Times : update_activity_insert(p, now)
    \/ \E now \in Times : update_activity_update(p, now)
    \/ \E sid \in RequestIds, now \in Times : end_session(p, [session_id |-> sid], now)
    \/ \E user_id \in Users : summary(p, user_id)

Spec == Init /\ [][Next]_vars

\* -------------------------------------------- classify_relevance, called
\* goals, titles, urls and category lists of the calls that are checked
CallGoals ==
  { <<>>,
    <<"a","b","c">>,
    <<"F","i","n","i","s","h"," ","R","e","p","o","r","t">>,
    <<"w","r","i","t","e"," ","t","h","e","s","i","s"," ","c","h","a","p","t","e","r">>,
    <<"p","o","s","t"," ","o","n"," ","T","w","i","t","t","e","r">>,
    <<"l","e","a","g","u","e">>,
    <<"t","h","e"," "," ","s","t","e","a","m","\t","e","n","g","i","n","e">>,
    <<"o","f"," ","l","e","g","e","n","d","s">>,
    <<"a","b","\r","c","d">>,
    <<"d","o","c","s","U+00A0","U+00C9","C","O","L","E">> }

CallTitles ==
  { None,
    <<>>,
    <<"T","w","i","t","t","e","r"," ","f","e","e","d">>,
    <<"T","h","e","s","i","s"," ","C","h","a","p","t","e","r"," ","D","r","a","f","t"," ","-"," ","G","o","o","g","l","e"," ","D","o","c","s">>,
    <<"U","n","r","e","l","a","t","e","d"," ","P","a","g","e">>,
    <<"o","f">>,
    <<"X","X","X">>,
    <<"r","e","p","o","r","t"," ","c","a","r","d">>,
    <<"T","I","U+212A","T","O","K"," ","U+00E9","c","o","l","e">> }

CallUrls ==
  { None,
    <<>>,
    <<"x",".","c","o","m","/","h","o","m","e">>,
    <<"l","e","g","e","n","d","s">>,
    <<"r","e","d","d","i","t",".","c","o","m","/","r","/","t","h","e","s","i","s">>,
    <<"d","o","c","s",".","n","e","w","/","r","e","p","o","r","t">> }

CallCategories ==
  { <<>>, <<"social">>, <<"games">>, <<"nsfw">>, <<"social", "games">>, <<"games", "social">>,
    <<"work">>, <<"work", "nsfw", "social">>, <<"social", "social">> }

ClassifyInit ==
  /\ session = <<>>
  /\ activityevent = <<>>
  /\ pc = [p \in Procs |-> "idle"]
  /\ local = [p \in Procs |-> NoLocal]
  /\ resp = NoResp
  /\ replies = [o \in {ObjectId(r) : r \in {x \in RequestIds : ObjectIdValid(x)}} |->
                  [relevant |-> 0, irrelevant |-> 0]]
  /\ call \in { [goal |-> g, title |-> t, url |-> u, categories |-> c,
                  done |-> FALSE, decision |-> "", reason |-> DefaultReason] :
                  g \in CallGoals, t \in CallTitles, u \in CallUrls, c \in CallCategories }

\* one call of classify_relevance on the arguments held in call
classify ==
  /\ ~call.done
  /\ LET r == classify_relevance(call.goal, call.title, call.url, call.categories)
     IN  call' = [call EXCEPT !.done = TRUE, !.decision = r[1], !.reason = r[2]]
  /\ UNCHANGED <<session, activityevent, pc, local, resp, replies>>

ClassifyNext == classify

ClassifySpec == ClassifyInit /\ [][ClassifyNext]_vars

\* ------------------------------------------------- summary, large stores
\* Stores around the two constants of session_summary, each the result of
\* start and activity requests run one after the other: the first two
\* sessions are u2's, the others u1's; session k has had k % 3 reports that
\* do not match its blocklist and k % 2 that do.
Utc == <<"utc">>

BulkStart(k) ==
  [user_id |-> IF k <= 2 THEN "u2" ELSE "u1", goal |-> FinishReport,
   duration_minutes |-> DurationMin, categories |-> <<"social">>, voice |-> None]

BulkReport(k, blocked) ==
  [session_id |-> NewObjectId(k), user_id |-> BulkStart(k).user_id, app |-> None,
   url |-> IF blocked THEN None ELSE DocsUrl,
   title |-> IF blocked THEN TwitterFeed ELSE None, idle |-> FALSE]

BulkDecision(k, blocked) ==
  classify_relevance(BulkStart(k).goal, BulkReport(k, blocked).title,
                     BulkReport(k, blocked).url, BulkStart(k).categories)

RECURSIVE Accrue(_, _, _)
Accrue(d, inc, times) ==
  IF times = 0 THEN d ELSE Accrue(IncDoc(d, inc, Utc), inc, times - 1)

\* session k after its reports
BulkDoc(k) ==
  Accrue(Accrue(SetField(Session(BulkStart(k), Utc), "_id", NewObjectId(k)),
                IncFor(BulkDecision(k, FALSE)[1]), k % 3),
         IncFor(BulkDecision(k, TRUE)[1]), k % 2)

\* the reports in the order they were made: a first unblocked report of every
\* session that has one, then a second, then the blocked reports
BulkReports(n) ==
  LET ks == [k \in 1..n |-> k]
      r1 == SelectSeq(ks, LAMBDA k : k % 3 >= 1)
      r2 == SelectSeq(ks, LAMBDA k : k % 3 >= 2)
      r3 == SelectSeq(ks, LAMBDA k : k % 2 >= 1)
  IN  [j \in 1..Len(r1) |-> <<r1[j], FALSE>>] \o [j \in 1..Len(r2) |-> <<r2[j], FALSE>>]
        \o [j \in 1..Len(r3) |-> <<r3[j], TRUE>>]

BulkStore(n) ==
  [session |-> [k \in 1..n |-> BulkDoc(k)],
   activityevent |->
     [j \in 1..Len(BulkReports(n)) |->
        LET k == BulkReports(n)[j][1]
            blocked == BulkReports(n)[j][2]
        IN  SetField(ActivityEvent(BulkReport(k, blocked), BulkDecision(k, blocked)[1],
                                   BulkDecision(k, blocked)[2], Utc),
                     "_id", NewObjectId(j))]]

BulkSizes == {0, 2, StreakCap, StreakCap + 3, SummaryLimit + 2, SummaryLimit + 3}

SummaryInit ==
  \E n \in BulkSizes :
    /\ session = BulkStore(n).session
    /\ activityevent = BulkStore(n).activityevent
    /\ pc = [p \in Procs |-> "idle"]
    /\ local = [p \in Procs |-> NoLocal]
    /\ resp = NoResp
    /\ replies = [o \in {ObjectId(r) : r \in {x \in RequestIds : ObjectIdValid(x)}} |->
         IF find_by_id(BulkStore(n).session, o) = <<>>
           THEN [relevant |-> 0, irrelevant |-> 0]
           ELSE [relevant |-> find_by_id(BulkStore(n).session, o)[1].total_focus_seconds
                                \div FocusIncrement,
                 irrelevant |-> find_by_id(BulkStore(n).session, o)[1].distractions_blocked]]
    /\ call = NoCall

SummaryNext ==
  \E p \in Procs :
    \/ \E sid \in RequestIds, now \in Times : end_session(p, [session_id |-> sid], now)
    \/ \E user_id \in Users : summary(p, user_id)

SummarySpec == SummaryInit /\ [][SummaryNext]_vars

\* ================================================================ claims
\* the stored session with this _id, as an index into the collection (0: none)
IndexOf(coll, oid) ==
  IF \E i \in 1..Len(coll) : coll[i]._id = oid
    THEN CHOOSE i \in 1..Len(coll) : coll[i]._id = oid
    ELSE 0

\* a request's session_id string names the stored session document d
Names(sid, d) == ObjectId(sid) = d._id

\* the request's session_id matches no stored session
Unknown(sid) == \A i \in 1..Len(session) : ~Names(sid, session[i])

\* the logged events of session document d that carry this decision
Logged(d, decision) ==
  Cardinality({j \in 1..Len(activityevent) :
                 /\ Names(activityevent[j].session_id, d)
                 /\ activityevent[j].decision = decision})

Quiescent == \A p \in Procs : pc[p] = "idle"

\* C1: no lost updates.  Every session's distractions_blocked is the number
\* of activity responses sent for it with decision irrelevant, and its
\* total_focus_seconds is 30 times the number sent with decision relevant,
\* whatever the interleaving of the workers' store operations and of end
\* requests; in particular once all requests have completed.
C1_NoLostUpdates ==
  \A i \in 1..Len(session) :
    /\ session[i].distractions_blocked = replies[session[i]._id].irrelevant
    /\ session[i].total_focus_seconds = FocusIncrement * replies[session[i]._id].relevant

\* a worker is about to update a session that another request, begun and
\* finished after this worker's lookup, has already incremented, and that an
\* end request has ended meanwhile
C1_Witness ==
  \E p \in Procs :
    /\ pc[p] = "update"
    /\ local[p].decision = "irrelevant"
    /\ LET i == IndexOf(session, local[p].sdoc._id)
       IN  /\ i > 0
           /\ session[i].distractions_blocked > local[p].sdoc.distractions_blocked
           /\ session[i].status = "ended"
           /\ local[p].sdoc.status = "active"

\* C2: in every step, every stored session keeps its place and its three
\* counters do not decrease, and a session that the step creates has all
\* three counters 0.
C2_CountersMonotone ==
  [][ /\ Len(session') >= Len(session)
      /\ \A i \in 1..Len(session') :
           IF i <= Len(session)
             THEN /\ session'[i]._id = session[i]._id
                  /\ session'[i].total_focus_seconds >= session[i].total_focus_seconds
                  /\ session'[i].total_idle_seconds >= session[i].total_idle_seconds
                  /\ session'[i].distractions_blocked >= session[i].distractions_blocked
             ELSE /\ session'[i].total_focus_seconds = 0
                  /\ session'[i].total_idle_seconds = 0
                  /\ session'[i].distractions_blocked = 0 ]_vars

\* two sessions, both with accrued counters, one of them ended
C2_Witness ==
  /\ Len(session) = 2
  /\ session[1].total_focus_seconds > 0
  /\ session[2].distractions_blocked > 0
  /\ session[2].status = "ended"

\* a step that is a whole request of this kind, answered in the step
Answered(op) ==
  /\ resp'.op = op
  /\ pc' = pc
  /\ resp' # resp \/ session' # session \/ activityevent' # activityevent

\* C3: a session is created active with no ended_at; a step changes a
\* session's status only from active to ended, only when it is an end request
\* for that session's id, and then ended_at is set; an end request for a
\* stored session leaves it ended; an ended session stays ended.
C3_Lifecycle ==
  [][ /\ \A i \in 1..Len(session') :
           IF i > Len(session)
             THEN session'[i].status = "active" /\ session'[i].ended_at = None
             ELSE /\ session[i].status = "ended" => session'[i].status = "ended"
                  /\ session'[i].status # session[i].status =>
                       /\ session[i].status = "active"
                       /\ session'[i].status = "ended"
                       /\ session'[i].ended_at \in Times
                       /\ Answered("end")
                       /\ Names(resp'.request.session_id, session[i])
      /\ Answered("end") =>
           \A i \in 1..Len(session) :
             Names(resp'.request.session_id, session[i]) =>
               /\ session'[i].status = "ended"
               /\ session'[i].ended_at \in Times
               /\ resp'.status = 200 /\ resp'.body.status = "ended" ]_vars

\* an ended session that a worker, whose lookup saw it active, is about to update
C3_Witness ==
  \E p \in Procs :
    /\ pc[p] = "update"
    /\ local[p].sdoc.status = "active"
    /\ LET i == IndexOf(session, local[p].sdoc._id)
       IN  i > 0 /\ session[i].status = "ended" /\ session[i].ended_at \in Times

\* the fields of a session document that no activity request may change
SameButCounters(d, e) ==
  /\ e._id = d._id
  /\ e.user_id = d.user_id
  /\ e.goal = d.goal
  /\ e.categories = d.categories
  /\ e.duration_minutes = d.duration_minutes
  /\ e.voice = d.voice
  /\ e.started_at = d.started_at
  /\ e.ended_at = d.ended_at
  /\ e.status = d.status
  /\ e.total_idle_seconds = d.total_idle_seconds

\* C4: an activity request for a stored session, active or ended, is not
\* refused at its lookup; when it completes it is answered 200 with its
\* decision, and exactly one counter of that session has changed in that
\* step: distractions_blocked by +1 when the decision is irrelevant, else
\* total_focus_seconds by +30; total_idle_seconds, status, goal, categories
\* and every other session are as before.  The increment is applied whatever
\* the counters already are, so a repeated payload increments again.
C4_ActivityFrame ==
  [][ /\ (Answered("activity") /\ resp'.status # 200) => Unknown(resp'.request.session_id)
      /\ \A p \in Procs :
           (pc[p] = "update" /\ pc'[p] = "idle") =>
             LET i == IndexOf(session, ObjectId(local[p].payload.session_id))
             IN  /\ i > 0
                 /\ Len(session') = Len(session)
                 /\ resp'.op = "activity" /\ resp'.status = 200
                 /\ resp'.body.decision \in {"relevant", "irrelevant"}
                 /\ IF resp'.body.decision = "irrelevant"
                      THEN /\ session'[i].distractions_blocked = session[i].distractions_blocked + 1
                           /\ session'[i].total_focus_seconds = session[i].total_focus_seconds
                      ELSE /\ session'[i].distractions_blocked = session[i].distractions_blocked
                           /\ session'[i].total_focus_seconds = session[i].total_focus_seconds + 30
                 /\ SameButCounters(session[i], session'[i])
                 /\ \A j \in 1..Len(session) : j # i => session'[j] = session[j] ]_vars

\* a report, whose lookup already saw the session ended and once incremented
\* by an identical report, is about to increment it again, with another
\* session stored
C4_Witness ==
  \E p \in Procs :
    /\ pc[p] = "update"
    /\ local[p].sdoc.status = "ended"
    /\ local[p].sdoc.distractions_blocked = 1
    /\ Len(session) = 2
    /\ Len(activityevent) = 2
    /\ activityevent[1].session_id = activityevent[2].session_id
    /\ activityevent[1].title = activityevent[2].title
    /\ activityevent[1].user_id = activityevent[2].user_id

\* C5: an activity request or an end request whose session_id matches no
\* stored session is answered 404 'Session not found' and leaves both
\* collections as they were.
C5_UnknownSessionNotFound ==
  [][ ((Answered("end") \/ Answered("activity")) /\ Unknown(resp'.request.session_id)) =>
        /\ resp'.status = 404 /\ resp'.body = NotFound
        /\ UNCHANGED store ]_vars

\* C8: a start request stores a session exactly when its duration_minutes is
\* in 1..480: then one document is appended, with the request's fields and
\* status active, and the answer carries its id; otherwise the request ends
\* in a validation error and the collection is as before.
C8_StartValidation ==
  [][ Answered("start") =>
        LET payload == resp'.request
        IN  IF payload.duration_minutes >= 1 /\ payload.duration_minutes <= 480
              THEN /\ Len(session') = Len(session) + 1
                   /\ SubSeq(session', 1, Len(session)) = session
                   /\ session'[Len(session')].status = "active"
                   /\ session'[Len(session')].duration_minutes = payload.duration_minutes
                   /\ session'[Len(session')].user_id = payload.user_id
                   /\ session'[Len(session')].goal = payload.goal
                   /\ resp'.status = 200 /\ resp'.body.status = "active"
                   /\ resp'.body.session_id = session'[Len(session')]._id
              ELSE /\ session' = session
                   /\ resp'.body = ValidationError ]_vars

\* sessions of 1 and of 480 minutes are stored, and the last start request
\* was rejected
C8_Witness ==
  /\ \E i \in 1..Len(session) : session[i].duration_minutes = 1
  /\ \E i \in 1..Len(session) : session[i].duration_minutes = 480
  /\ resp.op = "start"
  /\ resp.body = ValidationError

\* C10: the event log only grows, by one event at its end per step, and that
\* event carries the decision its request later returns and accrues; for
\* each session the logged irrelevant events are never fewer than
\* distractions_blocked and 30 times the logged relevant events never less
\* than total_focus_seconds, with equality whenever no activity request is in
\* flight.
C10_EventLog ==
  /\ [](\A i \in 1..Len(session) :
          /\ Logged(session[i], "irrelevant") >= session[i].distractions_blocked
          /\ 30 * Logged(session[i], "relevant") >= session[i].total_focus_seconds
          /\ Quiescent =>
               /\ Logged(session[i], "irrelevant") = session[i].distractions_blocked
               /\ 30 * Logged(session[i], "relevant") = session[i].total_focus_seconds)
  /\ [][ /\ \/ activityevent' = activityevent
            \/ /\ Len(activityevent') = Len(activityevent) + 1
               /\ SubSeq(activityevent', 1, Len(activityevent)) = activityevent
               /\ \E p \in Procs :
                    /\ pc[p] = "insert" /\ pc'[p] = "update"
                    /\ activityevent'[Len(activityevent')].decision = local[p].decision
                    /\ activityevent'[Len(activityevent')].session_id = local[p].payload.session_id
         /\ \A p \in Procs :
              (pc[p] = "update" /\ pc'[p] = "idle") =>
                /\ resp'.body.decision = local[p].decision
                /\ \E j \in 1..Len(activityevent) :
                     /\ activityevent[j].decision = resp'.body.decision
                     /\ activityevent[j].session_id = local[p].payload.session_id
                     /\ activityevent[j].title = local[p].payload.title ]_vars

\* no request in flight, and a session with a logged relevant and a logged
\* irrelevant event
C10_Witness ==
  /\ Quiescent
  /\ \E i \in 1..Len(session) :
       Logged(session[i], "irrelevant") = 1 /\ Logged(session[i], "relevant") = 1

\* the blob of a call: 'goal title url', lower-cased, a missing field empty
CallBlob ==
  lower(call.goal) \o <<" ">> \o lower(OrEmpty(call.title)) \o <<" ">> \o lower(OrEmpty(call.url))

\* the positions <<ci, ki>> of the keywords of the call's categories, in the
\* static table, that occur in the blob
CallHits ==
  {h \in UNION {{<<ci, ki>> : ki \in 1..Len(BLOCKLIST_KEYWORDS(call.categories[ci]))} :
                  ci \in 1..Len(call.categories)} :
     Contains(BLOCKLIST_KEYWORDS(call.categories[h[1]])[h[2]], CallBlob)}

Before(g, h) == g[1] < h[1] \/ (g[1] = h[1] /\ g[2] <= h[2])

\* C6: the call returns irrelevant exactly when some keyword of some listed
\* category occurs in the blob, whatever the goal words are; the reason then
\* names the first such keyword, by the order of the category list and then
\* of the table; a category that is not in the table has no keywords; the
\* decision is always relevant or irrelevant.
C6_BlocklistPrecedence ==
  call.done =>
    /\ call.decision \in {"relevant", "irrelevant"}
    /\ call.decision = "irrelevant" <=> CallHits # {}
    /\ CallHits # {} =>
         LET h == CHOOSE g \in CallHits : \A o \in CallHits : Before(g, o)
         IN  /\ call.reason.kw = BLOCKLIST_KEYWORDS(call.categories[h[1]])[h[2]]
             /\ call.reason.cat = call.categories[h[1]]
             /\ call.reason.text = "Matched blocked keyword '{kw}' in category '{cat}'"
    /\ \A ci \in 1..Len(call.categories) :
         call.categories[ci] \notin {"social", "nsfw", "games"} =>
           \A h \in CallHits : h[1] # ci

\* a call whose goal has a word that occurs in the title, whose second
\* category, after one that is not in the table, has a keyword in the blob
\* later in the table than another that also occurs: answered irrelevant
C6_Witness ==
  /\ call.done
  /\ call.decision = "irrelevant"
  /\ Cardinality(CallHits) >= 2
  /\ call.categories[1] = "work"
  /\ \E k \in 1..Len(goal_words(call.goal)) :
       Contains(goal_words(call.goal)[k], lower(OrEmpty(call.title)))

\* a goal word longer than 3 characters occurs in the observed title or url
GoalWordObserved ==
  \E k \in 1..Len(goal_words(call.goal)) :
    \/ Contains(goal_words(call.goal)[k], lower(OrEmpty(call.title)))
    \/ Contains(goal_words(call.goal)[k], lower(OrEmpty(call.url)))

\* C9: when no blocklist keyword matches, the call gives the reason 'Goal
\* keywords found in current context' only if a goal word longer than 3
\* characters occurs in the title or the url, and 'No blocklisted signals
\* detected' otherwise.
C9_GoalFallbackObserved ==
  (call.done /\ CallHits = {}) =>
    /\ call.decision = "relevant"
    /\ call.reason = IF GoalWordObserved THEN GoalReason ELSE DefaultReason

\* the places in the collection of the sessions a summary for user_id reads:
\* the user's sessions, but no more than the first 50 of them
ReadBy(user_id) ==
  {i \in 1..Len(session) :
     /\ session[i].user_id = user_id
     /\ Cardinality({j \in 1..(i - 1) : session[j].user_id = user_id}) < 50}

RECURSIVE TotalOver(_, _)
TotalOver(S, field) ==
  IF S = {} THEN 0
  ELSE LET i == CHOOSE x \in S : TRUE
       IN  session[i][field] + TotalOver(S \ {i}, field)

\* C7: a summary request for a user is answered with sessions = the number
\* of that user's sessions read (at most 50), each total the sum of that
\* counter over exactly those sessions, and streak_days = min(sessions, 7);
\* other users' sessions are not counted; both collections stay as they were.
C7_SummaryAggregation ==
  [][ Answered("summary") =>
        LET R == ReadBy(resp'.request.user_id)
        IN  /\ resp'.status = 200
            /\ resp'.body.sessions = Cardinality(R)
            /\ resp'.body.sessions <= 50
            /\ resp'.body.total_focus_seconds = TotalOver(R, "total_focus_seconds")
            /\ resp'.body.total_idle_seconds = TotalOver(R, "total_idle_seconds")
            /\ resp'.body.distractions_blocked = TotalOver(R, "distractions_blocked")
            /\ resp'.body.streak_days =
                 (IF resp'.body.sessions <= 7 THEN resp'.body.sessions ELSE 7)
            /\ UNCHANGED store ]_vars

\* a summary answered for a user with more than 50 sessions, in a store that
\* also holds another user's sessions with counters above 0: 50 sessions
\* counted, streak_days 7
C7_Witness ==
  /\ resp.op = "summary"
  /\ resp.body.sessions = 50
  /\ resp.body.streak_days = 7
  /\ resp.body.total_focus_seconds > 0
  /\ resp.body.distractions_blocked > 0
  /\ Cardinality({i \in 1..Len(session) : session[i].user_id = resp.request.user_id}) > 50
  /\ \E i \in 1..Len(session) :
       /\ session[i].user_id # resp.request.user_id
       /\ session[i].total_focus_seconds > 0

====
